---- MODULE Spec2Model ----
(***************************************************************************)
(* A model of the conrod graph widget (src/src/lib.rs): the shared frame   *)
(* state, the per-frame reconciliation in Graph::update, the type-indexed  *)
(* widget-id pool and the three-stage session (events -> nodes -> edges).  *)
(***************************************************************************)
EXTENDS Integers, Sequences, FiniteSets, TLC

\* ------------------------------------------------------------------ bounds
\* Longest node-id / edge sequence the caller hands to Graph::new.
MaxLen == 2
\* Largest coordinate a layout point or a dragged point may take.
MaxCoord == 2
\* Number of widget::Id values the host generator hands out before the run stops.
MaxIds == 2
\* Number of events one run pushes in all.
MaxEvents == 2
\* Number of identifier requests the caller makes in one frame.
MaxReqs == 2

\* Largest socket index the anchors are compared over.
MaxSocket == 2
\* ------------------------------------------------------------ value domains
\* The caller's node identifiers (NodeId is opaque to the widget).
NodeIds == {"a", "b"}

\* A point [x, y].
Origin == <<0, 0>>

Coords == 0..MaxCoord

Points == Coords \X Coords

\* NodeSocket { id, socket_index }.
NodeSocket(id, socket_index) == [id |-> id, socket_index |-> socket_index]

\* The edges the caller may describe, each (start, end).
EdgeVals == { <<NodeSocket("a", 0), NodeSocket("b", 0)>>,
              <<NodeSocket("b", 1), NodeSocket("a", 0)>> }

\* The concrete widget types the caller instantiates nodes and edges with (TypeId).
Types == {"Button", "Line"}

\* Accumulated left-button drag deltas the host may report for one widget.
Deltas == { <<0, 0>>, <<1, 0>>, <<0, 1>> }

\* ------------------------------------------------------------------ helpers
\* All sequences over S of length at most n.
SeqsUpTo(S, n) == UNION { [1..k -> S] : k \in 0..n }

\* Vec::truncate(n): keep the first n elements.
truncate(v, n) == IF n >= Len(v) THEN v ELSE SubSeq(v, 1, n)

\* The set of elements of a sequence.
Range(s) == { s[k] : k \in 1..Len(s) }

Min(S) == CHOOSE x \in S : \A y \in S : x <= y

\* ------------------------------------------------------- conrod::utils::iter_diff
\* Walks `a` and `b` in lock-step and reports the first difference:
\* Shorter(n) when b ends first, FirstMismatch(i, b[i..]) at the first unequal
\* pair, Longer(b[len(a)..]) when a is a strict prefix of b, None when equal.
\* Indices are 0-based as in the source.
iter_diff(a, b) ==
    LET bad == { k \in 1..Len(a) : k > Len(b) \/ a[k] # b[k] } IN
    IF bad # {}
    THEN LET k == Min(bad) IN
         IF k > Len(b)
         THEN [tag |-> "Shorter", i |-> k - 1, rest |-> <<>>]
         ELSE [tag |-> "FirstMismatch", i |-> k - 1, rest |-> SubSeq(b, k, Len(b))]
    ELSE IF Len(b) > Len(a)
         THEN [tag |-> "Longer", i |-> Len(a), rest |-> SubSeq(b, Len(a) + 1, Len(b))]
         ELSE [tag |-> "None", i |-> Len(a), rest |-> <<>>]

\* apply_diff with the FirstMismatch arm dropped: the retained tail is kept.
apply_diff_keep_old_tail(v, diff) ==
    CASE diff.tag = "FirstMismatch" -> v
      [] diff.tag = "Longer"        -> v \o diff.rest
      [] diff.tag = "Shorter"       -> truncate(v, diff.i)
      [] OTHER                      -> v

\* apply_diff with the Shorter arm dropped: nothing is truncated.
apply_diff_no_truncate(v, diff) ==
    CASE diff.tag = "FirstMismatch" -> truncate(v, diff.i) \o diff.rest
      [] diff.tag = "Longer"        -> v \o diff.rest
      [] diff.tag = "Shorter"       -> v
      [] OTHER                      -> v

\* The match on the IterDiff in Graph::update: what the retained Vec becomes.
apply_diff(v, diff) ==
    CASE diff.tag = "FirstMismatch" -> truncate(v, diff.i) \o diff.rest
      [] diff.tag = "Longer"        -> v \o diff.rest
      [] diff.tag = "Shorter"       -> truncate(v, diff.i)
      [] OTHER                      -> v

\* ------------------------------------------------------------------- state
VARIABLES
    \* Shared (behind State.shared: Arc<Mutex<Shared>>)
    events,          \* VecDeque<Event>: queued events, front first
    nodes,           \* HashMap<NodeId, NodeInner>: node id -> resolved point
    node_ids,        \* Vec<NodeId>
    edges,           \* Vec<(NodeSocket, NodeSocket)>
    type_widget_ids, \* HashMap<TypeId, TypeWidgetIds>
    node_widget_ids, \* HashMap<NodeId, widget::Id>
    \* the Arc that holds Shared
    state_alive,     \* the widget's State (and its Arc) exists
    strong,          \* Arc strong count
    weak,            \* Arc weak count
    \* the host Ui
    generator,       \* the next widget::Id of widget::id::Generator
    \* the caller
    layout,          \* the caller's Layout: node id -> point
    socket_layouts,  \* Session.socket_layouts, taken from the Graph's Style
    session,         \* the session stage object the caller holds
    iter,            \* the Events / Nodes / Edges iterator the caller holds
    ctx,             \* the Node / NodeWidget / Edge / EdgeWidget the caller holds
    item,            \* what the last Events::next returned
    panicked,        \* an expect() failed
    \* history of the run, recorded for the properties
    last,            \* arguments and pre-state of the last Graph::update
    evlog,           \* the events pushed and the events yielded so far
    reqlog           \* the identifiers requested in this frame and the one before

shared_vars == <<events, nodes, node_ids, edges, type_widget_ids, node_widget_ids>>

arc_vars == <<state_alive, strong, weak>>

caller_vars == <<layout, socket_layouts, session, iter, ctx, item>>

hist_vars == <<last, evlog, reqlog>>

vars == <<shared_vars, arc_vars, generator, caller_vars, panicked, hist_vars>>

\* Option::None, for every optional value of the model.
None == [tag |-> "None"]

\* Event::Node(NodeEvent::Dragged { node_id, from, to }).
Dragged(node_id, from, to) ==
    [tag |-> "Dragged", node_id |-> node_id, from |-> from, to |-> to]

\* TypeWidgetIds { next_index, widget_ids }; Default is (0, []).
TypeWidgetIds(next_index, widget_ids) ==
    [next_index |-> next_index, widget_ids |-> widget_ids]

\* HashMap::get on Layout.map with unwrap_or([0.0; 2]).
layout_point(lay, node_id) ==
    IF node_id \in DOMAIN lay THEN lay[node_id] ELSE Origin

\* A map with one entry inserted (HashMap::insert).
insert(map, k, v) == [x \in DOMAIN map \cup {k} |-> IF x = k THEN v ELSE map[x]]

\* The empty HashMap.
EmptyMap == [x \in {} |-> None]

\* SocketSide and Direction.
SocketSides == {"Left", "Right", "Top", "Bottom"}

Directions == {"Forwards", "Backwards"}

\* SocketLayout { side, direction }.
SocketLayout(side, direction) == [side |-> side, direction |-> direction]

\* SocketLayouts { input, output }.
SocketLayouts(input, output) == [input |-> input, output |-> output]

\* The defaults of Style: inputs on the left, outputs on the right, both backwards.
DefaultSocketLayouts ==
    SocketLayouts(SocketLayout("Left", "Backwards"), SocketLayout("Right", "Backwards"))

\* ----------------------------------------------------------------- WidgetIdMap
\* reset_indices that gives the identifiers up as well.
reset_indices_clear(twi) == [t \in DOMAIN twi |-> TypeWidgetIds(0, <<>>)]

\* reset_indices that skips the reset.
reset_indices_noop(twi) == twi

\* WidgetIdMap::reset_indices: every type's next_index becomes 0.
reset_indices(twi) ==
    [t \in DOMAIN twi |-> TypeWidgetIds(0, twi[t].widget_ids)]

\* clear_node_mappings that keeps the old mappings.
clear_node_mappings_keep(nwi) == nwi

\* WidgetIdMap::clear_node_mappings.
clear_node_mappings(nwi) == EmptyMap

\* next_id whose cursor stays where it is: every call yields the same place.
next_id_stuck(t, gen) ==
    IF t.next_index + 1 > Len(t.widget_ids)
    THEN [ids |-> TypeWidgetIds(t.next_index, Append(t.widget_ids, gen)),
          gen |-> gen + 1, id |-> gen]
    ELSE [ids |-> t, gen |-> gen, id |-> t.widget_ids[t.next_index + 1]]

\* next_id that never reuses an identifier: it always takes a fresh one.
next_id_always_fresh(t, gen) ==
    [ids |-> TypeWidgetIds(t.next_index + 1, Append(t.widget_ids, gen)),
     gen |-> gen + 1, id |-> gen]

\* TypeWidgetIds::next_id: the id at next_index, pushing generator.next() while
\* there is none. Yields the updated list, the generator and the id.
RECURSIVE next_id(_, _)
next_id(t, gen) ==
    IF t.next_index + 1 > Len(t.widget_ids)
    THEN next_id(TypeWidgetIds(t.next_index, Append(t.widget_ids, gen)), gen + 1)
    ELSE [ids |-> TypeWidgetIds(t.next_index + 1, t.widget_ids),
          gen |-> gen, id |-> t.widget_ids[t.next_index + 1]]

\* HashMap::entry(type_id).or_insert_with(TypeWidgetIds::default).
entry_or_default(twi, ty) ==
    IF ty \in DOMAIN twi THEN twi[ty] ELSE TypeWidgetIds(0, <<>>)

\* next_id_for_node that keeps the mapping a node already has.
next_id_for_node_keep_first(twi, nwi, ty, node_id, gen) ==
    LET r == next_id(entry_or_default(twi, ty), gen) IN
    [twi |-> insert(twi, ty, r.ids),
     nwi |-> IF node_id \in DOMAIN nwi THEN nwi ELSE insert(nwi, node_id, r.id),
     gen |-> r.gen, id |-> r.id]

\* WidgetIdMap::next_id_for_node::<T>: the next id of T's list, recorded for node_id.
next_id_for_node(twi, nwi, ty, node_id, gen) ==
    LET r == next_id(entry_or_default(twi, ty), gen) IN
    [twi |-> insert(twi, ty, r.ids), nwi |-> insert(nwi, node_id, r.id),
     gen |-> r.gen, id |-> r.id]

\* next_id_for_edge that drops the node mappings.
next_id_for_edge_unbinds(twi, nwi, ty, gen) ==
    LET r == next_id(entry_or_default(twi, ty), gen) IN
    [twi |-> insert(twi, ty, r.ids), nwi |-> EmptyMap, gen |-> r.gen, id |-> r.id]

\* WidgetIdMap::next_id_for_edge::<T>: the next id of T's list.
next_id_for_edge(twi, nwi, ty, gen) ==
    LET r == next_id(entry_or_default(twi, ty), gen) IN
    [twi |-> insert(twi, ty, r.ids), nwi |-> nwi, gen |-> r.gen, id |-> r.id]

\* ------------------------------------------------------------- Graph::update
\* The drag test left out: every bound node counts as dragged.
is_dragged_always(d) == TRUE

\* `dragged_x == 0.0 && dragged_y == 0.0` negated: the drag moves the widget.
is_dragged(d) == ~(d[1] = 0 /\ d[2] = 0)

\* drag_to that moves along x only.
drag_to_x_only(point, d) == <<point[1] + d[1], point[2]>>

\* `to`: the baseline point moved by the accumulated drag.
drag_to(point, d) == <<point[1] + d[1], point[2] + d[2]>>

\* A loop body that leaves a dragged node at its baseline until the caller
\* has applied the event.
resolve_node_at_baseline(node_id, lay, nwi, drag) ==
    LET point == layout_point(lay, node_id) IN
    IF node_id \notin DOMAIN nwi
    THEN [point |-> point, pushed |-> <<>>]
    ELSE LET d == drag[nwi[node_id]] IN
         IF d[1] = 0 /\ d[2] = 0
         THEN [point |-> point, pushed |-> <<>>]
         ELSE [point |-> point,
               pushed |-> <<Dragged(node_id, point, <<point[1] + d[1], point[2] + d[2]>>)>>]

\* One pass of the loop body of update for node_id: the resolved point and the
\* events pushed (none, or one Dragged). `drag` is the host's accumulated
\* left-button drag per widget::Id.
resolve_node(node_id, lay, nwi, drag) ==
    LET point == layout_point(lay, node_id) IN
    IF node_id \notin DOMAIN nwi
    THEN [point |-> point, pushed |-> <<>>]
    ELSE LET d == drag[nwi[node_id]] IN
         IF ~is_dragged(d)
         THEN [point |-> point, pushed |-> <<>>]
         ELSE LET to == drag_to(point, d) IN
              [point |-> to, pushed |-> <<Dragged(node_id, point, to)>>]

\* The loop `for i in 0..shared.node_ids.len()` from index i (1-based) on:
\* acc.nodes and acc.pushed are the map filled and the events pushed so far.
RECURSIVE fill_nodes(_, _, _, _, _, _)
fill_nodes(i, ids, lay, nwi, drag, acc) ==
    IF i > Len(ids) THEN acc
    ELSE LET r == resolve_node(ids[i], lay, nwi, drag) IN
         fill_nodes(i + 1, ids, lay, nwi, drag,
                    [nodes |-> insert(acc.nodes, ids[i], r.point),
                     pushed |-> acc.pushed \o r.pushed])

\* A Graph that stores the resolved positions in the caller's Layout.
borrow_mut(lay, resolved) ==
    [n \in DOMAIN lay |-> IF n \in DOMAIN resolved THEN resolved[n] ELSE lay[n]]

\* Graph.layout: &'a Layout<NI>, the shared borrow update reads the baselines
\* through: the caller's Layout after update, whatever positions were resolved.
borrow(lay, resolved) == lay

\* The nodes map left as the frame before filled it.
clear_keep(map) == map

\* shared.nodes.clear().
clear(map) == EmptyMap

\* The pushes of one reconciliation put at the front of the queue.
push_front_all(q, evs) == evs \o q

\* shared.events.push_back(event) for each event of one reconciliation.
push_back_all(q, evs) == q \o evs

\* The session reference update creates: Arc::clone instead of Arc::downgrade.
session_ref_strong == "Arc"

\* The session reference update creates: Arc::downgrade(&state.shared).
session_ref == "Weak"

\* What an Arc reference of the given kind adds to the strong / weak count.
strong_of(kind) == IF kind = "Arc" THEN 1 ELSE 0

weak_of(kind) == IF kind = "Weak" THEN 1 ELSE 0

\* The layouts the caller starts with (node "b" has no entry in the second).
Layouts == { [n \in NodeIds |-> IF n = "a" THEN <<0, 1>> ELSE <<1, 0>>],
             [n \in {"a"} |-> <<0, 0>>] }

\* The histories a specification records; the others keep their first value.
AllHist == {"diff", "drag", "events", "requests", "bound"}

\* Widget::init_state: empty Shared behind a fresh Arc; Ids::new took the
\* background id from the generator. The caller holds no session yet.
InitStyled(LS, SLS) ==
    /\ events = <<>>
    /\ nodes = EmptyMap
    /\ node_ids = <<>>
    /\ edges = <<>>
    /\ type_widget_ids = EmptyMap
    /\ node_widget_ids = EmptyMap
    /\ state_alive = TRUE
    /\ strong = 1
    /\ weak = 0
    /\ generator = 1
    /\ layout \in LS
    /\ socket_layouts \in SLS
    /\ session = "None"
    /\ iter = None
    /\ ctx = None
    /\ item = None
    /\ panicked = FALSE
    /\ last = [frames |-> 0, tick |-> 0, stale |-> FALSE,
               old_node_ids |-> <<>>, new_nodes |-> <<>>,
               old_edges |-> <<>>, new_edges |-> <<>>, layout |-> EmptyMap,
               nwi |-> EmptyMap, drag |-> EmptyMap, pushed |-> <<>>]
    /\ evlog = [pushed |-> <<>>, yielded |-> <<>>]
    /\ reqlog = [reqs |-> <<>>, prev_reqs |-> <<>>, hwm |-> [t \in Types |-> 0],
                 bound |-> {}, prev_bound |-> {}]

\* The same with the Style's default socket layouts.
InitWith(LS) == InitStyled(LS, {DefaultSocketLayouts})

Init == InitWith(Layouts)

\* The strong references an iterator or context of the caller holds: each
\* Events, Nodes, Edges, Node and Edge owns one Arc<Mutex<Shared>>.
held(obj) == IF obj.tag = "None" THEN 0 ELSE 1

\* Graph::update up to the construction of the Session: what one
\* reconciliation does to Shared. `drag` is what
\* ui.widget_input(id).drags().left() sums to for each widget.
reconcile(new_nodes, new_edges, drag, H) ==
    LET twi    == reset_indices(type_widget_ids)
        ids    == apply_diff(node_ids, iter_diff(node_ids, new_nodes))
        es     == apply_diff(edges, iter_diff(edges, new_edges))
        filled == fill_nodes(1, ids, layout, node_widget_ids, drag,
                             [nodes |-> clear(nodes), pushed |-> <<>>])
    IN
    /\ state_alive /\ ~panicked
    /\ ctx.tag = "None"
    /\ Len(events) + Len(filled.pushed) <= MaxEvents
    /\ type_widget_ids' = twi
    /\ node_ids' = ids
    /\ edges' = es
    /\ nodes' = filled.nodes
    /\ events' = push_back_all(events, filled.pushed)
    /\ node_widget_ids' = clear_node_mappings(node_widget_ids)
    /\ last' = [frames |-> IF last.frames < 2 THEN last.frames + 1 ELSE 2,
                tick |-> 1 - last.tick,
                stale |-> "stale" \in H,
                old_node_ids |-> IF "diff" \in H THEN node_ids ELSE <<>>,
                new_nodes |-> IF "diff" \in H THEN new_nodes ELSE <<>>,
                old_edges |-> IF "diff" \in H THEN edges ELSE <<>>,
                new_edges |-> IF "diff" \in H THEN new_edges ELSE <<>>,
                layout |-> IF "drag" \in H THEN layout ELSE EmptyMap,
                nwi |-> IF "drag" \in H THEN node_widget_ids ELSE EmptyMap,
                drag |-> IF "drag" \in H THEN drag ELSE EmptyMap,
                pushed |-> IF H \cap {"drag", "events"} # {}
                           THEN filled.pushed ELSE <<>>]
    /\ evlog' = IF "events" \in H
                THEN [evlog EXCEPT !.pushed = @ \o filled.pushed]
                ELSE evlog
    /\ reqlog' = LET r == IF "requests" \in H
                           THEN [reqlog EXCEPT !.prev_reqs = reqlog.reqs, !.reqs = <<>>]
                           ELSE reqlog
                 IN IF "bound" \in H
                    THEN [r EXCEPT !.prev_bound = reqlog.bound, !.bound = {}]
                    ELSE r
    /\ layout' = borrow(layout, filled.nodes)
    /\ UNCHANGED <<state_alive, generator, socket_layouts, ctx, panicked>>

\* Graph::new(new_nodes, new_edges, &layout).set(id, ui): one reconciliation.
\* The session of the frame before, and the iterator borrowed from it, end
\* when the caller takes the new session.
update(new_nodes, new_edges, drag, H) ==
    LET old == IF session = "None" THEN "None" ELSE session_ref IN
    /\ reconcile(new_nodes, new_edges, drag, H)
    /\ session' = "SessionEvents"
    /\ iter' = None
    /\ item' = None
    /\ strong' = strong - held(iter) - strong_of(old) + strong_of(session_ref)
    /\ weak' = weak - weak_of(old) + weak_of(session_ref)

\* A reconciliation whose session the caller drops at once, going on with the
\* session of an earlier frame at the stage it has reached: the Weak created
\* is released again and the held session is not touched.
update_stale(new_nodes, new_edges, drag, H) ==
    /\ session # "None" /\ iter.tag = "None"
    /\ reconcile(new_nodes, new_edges, drag, H \cup {"stale"})
    /\ UNCHANGED <<session, iter, item, strong, weak>>

\* One frame's reconciliation with the caller's sequences drawn from NS and ES
\* and the host's drag deltas from DS.
Update(NS, ES, DS, H) ==
    \E new_nodes \in NS, new_edges \in ES :
        \E drag \in [{node_widget_ids[n] : n \in DOMAIN node_widget_ids} -> DS] :
            /\ update(new_nodes, new_edges, drag, H)
            /\ \A n \in DOMAIN nodes' : nodes'[n] \in Points

\* An upgrade that hands out the state whether or not it is still owned.
upgrade_always(strong_count) == TRUE

\* Weak::upgrade(): Some while a strong reference is left.
upgrade(strong_count) == strong_count > 0

\* A Nodes iterator one entry ahead of where it should be.
Nodes_ahead(index) == [tag |-> "Nodes", index |-> index + 1]

\* The iterator constructors.
Events == [tag |-> "Events", index |-> 0]

Nodes(index) == [tag |-> "Nodes", index |-> index]

Edges(index) == [tag |-> "Edges", index |-> index]

\* The contexts an iterator yields and the handles made from them.
Node(node_id, point) == [tag |-> "Node", node_id |-> node_id, point |-> point]

NodeWidget(node, ty, widget_id) ==
    [tag |-> "NodeWidget", node_id |-> node.node_id, point |-> node.point,
     ty |-> ty, widget_id |-> widget_id]

Edge(start, end) == [tag |-> "Edge", start |-> start, end |-> end]

EdgeWidget(edge, ty, widget_id) ==
    [tag |-> "EdgeWidget", start |-> edge.start, end |-> edge.end,
     ty |-> ty, widget_id |-> widget_id]

\* A stage method that starts with `shared.upgrade().expect(..)`: it panics when
\* Shared is gone, and otherwise returns the iterator, which owns the Arc.
stage_iter(stage, it) ==
    /\ session = stage /\ ~panicked
    /\ iter.tag = "None" /\ ctx.tag = "None"
    /\ IF upgrade(strong)
       THEN /\ iter' = it
            /\ strong' = strong + 1
            /\ UNCHANGED panicked
       ELSE /\ panicked' = TRUE
            /\ UNCHANGED <<iter, strong>>
    /\ UNCHANGED <<shared_vars, state_alive, weak, generator, layout, socket_layouts, session,
                   ctx, item, hist_vars>>

\* SessionEvents::events.
SessionEvents_events == stage_iter("SessionEvents", Events)

\* SessionNodes::nodes.
SessionNodes_nodes == stage_iter("SessionNodes", Nodes(0))

\* SessionEdges::edges.
SessionEdges_edges == stage_iter("SessionEdges", Edges(0))

\* The stage after SessionEvents, were next() to hand the same stage back.
after_events_same == "SessionEvents"

\* SessionEvents::next returns SessionNodes.
after_events == "SessionNodes"

\* The stage after SessionNodes, were next() to go back to the events stage.
after_nodes_back == "SessionEvents"

\* SessionNodes::next returns SessionEdges.
after_nodes == "SessionEdges"

\* A stage transition `next(self)`: moves the Session into the next stage
\* object. It never reads Shared. The iterator borrowed from the stage has
\* ended by then, and its Arc is released.
stage_next(stage, to) ==
    /\ session = stage /\ ~panicked
    /\ ctx.tag = "None"
    /\ session' = to
    /\ iter' = None
    /\ item' = None
    /\ strong' = strong - held(iter)
    /\ UNCHANGED <<shared_vars, state_alive, weak, generator, layout, socket_layouts, ctx,
                   panicked, hist_vars>>

SessionEvents_next == stage_next("SessionEvents", after_events)

SessionNodes_next == stage_next("SessionNodes", after_nodes)

\* pop_front replaced by pop_back.
pop_back(q) ==
    IF q = <<>> THEN [item |-> None, rest |-> q]
    ELSE [item |-> q[Len(q)], rest |-> SubSeq(q, 1, Len(q) - 1)]

\* VecDeque::pop_front.
pop_front(q) ==
    IF q = <<>> THEN [item |-> None, rest |-> q]
    ELSE [item |-> Head(q), rest |-> Tail(q)]

\* <Events as Iterator>::next.
Events_next(H) ==
    /\ iter.tag = "Events" /\ ~panicked
    /\ LET r == pop_front(events) IN
       /\ events' = r.rest
       /\ item' = r.item
       /\ evlog' = IF "events" \in H /\ r.item.tag # "None"
                   THEN [evlog EXCEPT !.yielded = Append(@, r.item)]
                   ELSE evlog
    /\ UNCHANGED <<nodes, node_ids, edges, type_widget_ids, node_widget_ids,
                   arc_vars, generator, layout, socket_layouts, session, iter, ctx, panicked,
                   last, reqlog>>

\* The caller's reaction to a Dragged event: *layout.get_mut(&node_id).unwrap() = to.
ApplyDragged ==
    /\ item.tag = "Dragged" /\ ~panicked
    /\ item.node_id \in DOMAIN layout
    /\ layout' = [layout EXCEPT ![item.node_id] = item.to]
    /\ item' = None
    /\ UNCHANGED <<shared_vars, arc_vars, generator, socket_layouts, session, iter, ctx,
                   panicked, hist_vars>>

\* The caller lets its iterator go out of scope: its Arc is released.
DropIter ==
    /\ iter.tag # "None" /\ ctx.tag = "None" /\ ~panicked
    /\ iter' = None
    /\ item' = None
    /\ strong' = strong - 1
    /\ UNCHANGED <<shared_vars, state_alive, weak, generator, layout, socket_layouts, session,
                   ctx, panicked, hist_vars>>

\* The host drops the widget's State (the Ui is dropped): its Arc is released.
DropState ==
    /\ state_alive /\ ~panicked
    /\ state_alive' = FALSE
    /\ strong' = strong - 1
    /\ UNCHANGED <<shared_vars, weak, generator, caller_vars, panicked, hist_vars>>

\* Number of requests for type ty in a request log.
CountOf(reqs, ty) == Cardinality({k \in 1..Len(reqs) : reqs[k].ty = ty})

\* The request history after one identifier request of type ty that returned id.
Requested(ty, id) ==
    LET reqs == Append(reqlog.reqs, [ty |-> ty, id |-> id]) IN
    [reqlog EXCEPT !.reqs = reqs,
                   !.hwm[ty] = IF CountOf(reqs, ty) > @ THEN CountOf(reqs, ty) ELSE @]

\* <Nodes as Iterator>::next: the node at `index`, if node_ids has one and the
\* nodes map knows it; the index advances either way.
Nodes_next ==
    /\ iter.tag = "Nodes" /\ ctx.tag = "None" /\ ~panicked
    /\ iter.index <= Len(node_ids)
    /\ iter' = Nodes(iter.index + 1)
    /\ IF iter.index < Len(node_ids) /\ node_ids[iter.index + 1] \in DOMAIN nodes
       THEN /\ ctx' = Node(node_ids[iter.index + 1], nodes[node_ids[iter.index + 1]])
            /\ strong' = strong + 1
       ELSE UNCHANGED <<ctx, strong>>
    /\ UNCHANGED <<shared_vars, state_alive, weak, generator, layout, socket_layouts, session,
                   item, panicked, hist_vars>>

\* <Edges as Iterator>::next: the edge at `index`, if there is one.
Edges_next ==
    /\ iter.tag = "Edges" /\ ctx.tag = "None" /\ ~panicked
    /\ iter.index <= Len(edges)
    /\ iter' = Edges(iter.index + 1)
    /\ IF iter.index < Len(edges)
       THEN /\ ctx' = Edge(edges[iter.index + 1][1], edges[iter.index + 1][2])
            /\ strong' = strong + 1
       ELSE UNCHANGED <<ctx, strong>>
    /\ UNCHANGED <<shared_vars, state_alive, weak, generator, layout, socket_layouts, session,
                   item, panicked, hist_vars>>

\* Node::widget(w) with w of type ty: a NodeWidget with no id requested yet.
Node_widget(TS) ==
    /\ ctx.tag = "Node" /\ ~panicked
    /\ \E ty \in TS : ctx' = NodeWidget(ctx, ty, <<>>)
    /\ UNCHANGED <<shared_vars, arc_vars, generator, layout, socket_layouts, session, iter, item,
                   panicked, hist_vars>>

\* Edge::widget(w) with w of type ty: an EdgeWidget with no id requested yet.
Edge_widget(TS) ==
    /\ ctx.tag = "Edge" /\ ~panicked
    /\ \E ty \in TS : ctx' = EdgeWidget(ctx, ty, <<>>)
    /\ UNCHANGED <<shared_vars, arc_vars, generator, layout, socket_layouts, session, iter, item,
                   panicked, hist_vars>>

\* conrod::Range { start, end } and conrod::Rect { x, y }.
Range_new(start, end) == [start |-> start, end |-> end]

Rect(x, y) == [x |-> x, y |-> y]

\* conrod's Rect::from_xy_dim: the rectangle of dimensions dim centred at xy
\* (each axis Range::from_pos_and_len: pos - len / 2 to pos + len / 2).
from_xy_dim(xy, dim) ==
    Rect(Range_new(xy[1] - dim[1] \div 2, xy[1] + dim[1] \div 2),
         Range_new(xy[2] - dim[2] \div 2, xy[2] + dim[2] \div 2))

\* A fallback that ignores the node's resolved point.
node_rect_origin(node_id, nwi, nds, rect_of) ==
    IF node_id \in DOMAIN nwi /\ rect_of[nwi[node_id]] # <<>>
    THEN rect_of[nwi[node_id]][1]
    ELSE from_xy_dim(Origin, <<0, 0>>)

\* node_rect: the host's rectangle of the widget bound to the node, or, when
\* no widget is bound or the host has none, a zero-size rectangle at the
\* node's resolved point, or at [0.0; 2] when the node has none. rect_of is
\* ui.rect_of: widget::Id -> Option<Rect>, <<>> or <<rect>>.
node_rect(node_id, nwi, nds, rect_of) ==
    IF node_id \in DOMAIN nwi /\ rect_of[nwi[node_id]] # <<>>
    THEN rect_of[nwi[node_id]][1]
    ELSE from_xy_dim(IF node_id \in DOMAIN nds THEN nds[node_id] ELSE Origin, <<0, 0>>)

SOCKET_PADDING == 10

PAD == SOCKET_PADDING \div 2

\* range_scalar without the padding at the end of the range.
range_scalar_no_pad(index, range, direction) ==
    IF direction = "Forwards"
    THEN range.start + index * SOCKET_PADDING
    ELSE range.end - index * SOCKET_PADDING

\* range_scalar: the position of socket `index` along a range.
range_scalar(index, range, direction) ==
    IF direction = "Forwards"
    THEN range.start + PAD + index * SOCKET_PADDING
    ELSE range.end - PAD - index * SOCKET_PADDING

\* A socket placed at the rectangle's lower left corner whatever its index.
socket_point_corner(index, rect, socket_layout) == <<rect.x.start, rect.y.start>>

\* socket_point: the position of socket `index` on the side of rect.
socket_point(index, rect, socket_layout) ==
    CASE socket_layout.side = "Left" ->
             <<rect.x.start, range_scalar(index, rect.y, socket_layout.direction)>>
      [] socket_layout.side = "Right" ->
             <<rect.x.end, range_scalar(index, rect.y, socket_layout.direction)>>
      [] socket_layout.side = "Bottom" ->
             <<range_scalar(index, rect.x, socket_layout.direction), rect.y.start>>
      [] socket_layout.side = "Top" ->
             <<range_scalar(index, rect.x, socket_layout.direction), rect.y.end>>

\* Rectangles the host may hold for a node's widget: a Button's, and a
\* zero-area one away from the node's point.
HostRects == { from_xy_dim(<<1, 0>>, <<100, 30>>), from_xy_dim(<<4, 6>>, <<0, 0>>) }

\* Edge::straight_line(ui): the two node rectangles, the start socket's point
\* on the output layout and the end socket's on the input layout, and the
\* EdgeWidget of the Line between them. The handle keeps what the host's
\* rect_of answered and the rectangles used.
Edge_straight_line(RS) ==
    /\ ctx.tag = "Edge" /\ ~panicked
    /\ \E rect_of \in [{node_widget_ids[n] : n \in DOMAIN node_widget_ids}
                          -> {<<>>} \cup {<<r>> : r \in RS}] :
          LET start_rect == node_rect(ctx.start.id, node_widget_ids, nodes, rect_of)
              end_rect   == node_rect(ctx.end.id, node_widget_ids, nodes, rect_of)
              start_xy   == socket_point(ctx.start.socket_index, start_rect,
                                         socket_layouts.output)
              end_xy     == socket_point(ctx.end.socket_index, end_rect,
                                         socket_layouts.input)
          IN ctx' = [tag |-> "EdgeWidget", start |-> ctx.start, end |-> ctx.end,
                     ty |-> "Line", widget_id |-> <<>>,
                     line |-> <<start_xy, end_xy>>,
                     rects |-> <<start_rect, end_rect>>, rect_of |-> rect_of]
    /\ UNCHANGED <<shared_vars, arc_vars, generator, layout, socket_layouts, session,
                   iter, item, panicked, hist_vars>>

\* widget_id without the Cell: every call goes to the pool.
widget_id_uncached(c) ==
    LET r == IF c.tag = "NodeWidget"
             THEN next_id_for_node(type_widget_ids, node_widget_ids, c.ty,
                                   c.node_id, generator)
             ELSE next_id_for_edge(type_widget_ids, node_widget_ids, c.ty,
                                   generator)
    IN [twi |-> r.twi, nwi |-> r.nwi, gen |-> r.gen, id |-> r.id, fresh |-> TRUE]

\* NodeWidget::widget_id / EdgeWidget::widget_id on the handle c: the cached
\* id, or the next id of the pool for the handle's type.
widget_id(c) ==
    IF c.widget_id # <<>>
    THEN [twi |-> type_widget_ids, nwi |-> node_widget_ids, gen |-> generator,
          id |-> c.widget_id[1], fresh |-> FALSE]
    ELSE LET r == IF c.tag = "NodeWidget"
                  THEN next_id_for_node(type_widget_ids, node_widget_ids, c.ty,
                                        c.node_id, generator)
                  ELSE next_id_for_edge(type_widget_ids, node_widget_ids, c.ty,
                                        generator)
         IN [twi |-> r.twi, nwi |-> r.nwi, gen |-> r.gen, id |-> r.id, fresh |-> TRUE]

\* The pool part of a widget_id call on the held handle; `keep` tells whether
\* the handle stays (widget_id) or is consumed (set).
take_widget_id(keep, H) ==
    LET r == widget_id(ctx) IN
    /\ ctx.tag \in {"NodeWidget", "EdgeWidget"} /\ ~panicked
    /\ type_widget_ids' = r.twi
    /\ node_widget_ids' = r.nwi
    /\ generator' = r.gen
    /\ reqlog' = LET q == IF "requests" \in H /\ r.fresh
                           THEN Requested(ctx.ty, r.id) ELSE reqlog
                 IN IF "bound" \in H /\ ctx.tag = "NodeWidget"
                    THEN [q EXCEPT !.bound = @ \cup {ctx.node_id}]
                    ELSE q
    /\ IF keep
       THEN /\ ctx' = [ctx EXCEPT !.widget_id = <<r.id>>]
            /\ UNCHANGED strong
       ELSE /\ ctx' = None
            /\ strong' = strong - 1
    /\ UNCHANGED <<events, nodes, node_ids, edges, state_alive, weak, layout, socket_layouts,
                   session, iter, item, panicked, last, evlog>>

\* take_widget_id while the host's generator and the frame's requests of the
\* handle's type are within the bounds.
use_widget_id(keep, H) ==
    /\ ctx.tag \in {"NodeWidget", "EdgeWidget"}
    /\ widget_id(ctx).gen <= MaxIds + 1
    /\ widget_id(ctx).fresh =>
           entry_or_default(type_widget_ids, ctx.ty).next_index < MaxReqs
    /\ take_widget_id(keep, H)

\* NodeWidget::widget_id(ui) and EdgeWidget::widget_id(ui).
Widget_widget_id(H) == use_widget_id(TRUE, H)

\* NodeWidget::set(ui) and EdgeWidget::set(ui): take the id, instantiate the
\* widget, consume the handle.
Widget_set(H) == use_widget_id(FALSE, H)

\* The caller drops a context or handle without setting a widget.
DropCtx ==
    /\ ctx.tag # "None" /\ ~panicked
    /\ ctx' = None
    /\ strong' = strong - 1
    /\ UNCHANGED <<shared_vars, state_alive, weak, generator, layout, socket_layouts, session,
                   iter, item, panicked, hist_vars>>

\* The caller's part of one frame after the reconciliation, with the content
\* widget types drawn from TS.
Stages(TS, H) ==
    \/ SessionEvents_events
    \/ Events_next(H)
    \/ ApplyDragged
    \/ SessionEvents_next
    \/ SessionNodes_nodes
    \/ Nodes_next
    \/ Node_widget(TS)
    \/ SessionNodes_next
    \/ SessionEdges_edges
    \/ Edges_next
    \/ Edge_widget(TS)
    \/ Edge_straight_line(HostRects)
    \/ Widget_widget_id(H)
    \/ Widget_set(H)
    \/ DropCtx
    \/ DropIter

Next ==
    \/ Update(SeqsUpTo(NodeIds, MaxLen), SeqsUpTo(EdgeVals, MaxLen), Deltas, AllHist)
    \/ Stages(Types, AllHist)
    \/ DropState

Spec == Init /\ [][Next]_vars

\* ------------------------------------------------- restricted environments
\* Edge sequences with an added, a removed, a swapped and a repeated edge.
EdgeSeqs ==
    LET e1 == <<NodeSocket("a", 0), NodeSocket("b", 0)>>
        e2 == <<NodeSocket("b", 1), NodeSocket("a", 0)>>
    IN {<<>>, <<e1>>, <<e1, e2>>, <<e2, e1>>, <<e1, e1>>}

\* Node sequences that add a node, remove one and repeat one.
NodeSeqs == {<<"a">>, <<"a", "b">>, <<"a", "a">>}

NoDrag == {<<0, 0>>}

OneLayout == {[n \in NodeIds |-> IF n = "a" THEN <<0, 1>> ELSE <<1, 0>>]}

\* Reconciliation alone: every frame the caller hands over new sequences and
\* lets the session go unused.
NextDiff == Update(SeqsUpTo(NodeIds, MaxLen), EdgeSeqs, NoDrag, {"diff"})

SpecDiff == InitWith(OneLayout) /\ [][NextDiff]_vars

\* Frames with drags: the events stage and the nodes stage with one widget
\* type; the caller leaves its layout as it is.
NextDrag ==
    \/ Update(NodeSeqs, {<<>>}, Deltas, {"drag"})
    \/ SessionEvents_events
    \/ Events_next({})
    \/ SessionEvents_next
    \/ SessionNodes_nodes
    \/ Nodes_next
    \/ Node_widget({"Button"})
    \/ Widget_set({})

\* Node "b" has no entry in the layout.
LayoutA == {[n \in {"a"} |-> <<1, 0>>]}

SpecDrag == InitWith(LayoutA) /\ [][NextDrag]_vars

\* Frames that add and remove a node and an edge while nodes are dragged.
NextStruct ==
    \/ Update({<<"a">>, <<"a", "b">>}, {<<>>, <<CHOOSE e \in EdgeVals : TRUE>>},
              {<<0, 0>>, <<1, 0>>}, {"diff", "drag"})
    \/ SessionEvents_next
    \/ SessionNodes_nodes
    \/ Nodes_next
    \/ Node_widget({"Button"})
    \/ Widget_set({})

SpecStruct == InitWith(LayoutA) /\ [][NextStruct]_vars

\* Frames of a small graph whose nodes and edges the caller instantiates, or
\* leaves out, with widgets of either type; no drags.
NextPool ==
    \/ Update({<<"a">>, <<"a", "b">>}, {<<>>, <<CHOOSE e \in EdgeVals : TRUE>>},
              NoDrag, {"requests"})
    \/ SessionEvents_next
    \/ SessionNodes_nodes
    \/ Nodes_next
    \/ Node_widget(Types)
    \/ SessionNodes_next
    \/ SessionEdges_edges
    \/ Edges_next
    \/ Edge_widget(Types)
    \/ Widget_widget_id({"requests"})
    \/ Widget_set({"requests"})
    \/ DropCtx

SpecPool == InitWith(LayoutA) /\ [][NextPool]_vars

\* The three stages over a graph of one node and one edge, with the host free
\* to drop the widget's State at any moment.
NextSession ==
    \/ Update({<<"a">>}, {<<CHOOSE e \in EdgeVals : TRUE>>}, NoDrag, {})
    \/ SessionEvents_events
    \/ Events_next({})
    \/ SessionEvents_next
    \/ SessionNodes_nodes
    \/ Nodes_next
    \/ Node_widget({"Button"})
    \/ SessionNodes_next
    \/ SessionEdges_edges
    \/ Edges_next
    \/ Edge_widget({"Line"})
    \/ Widget_set({})
    \/ DropCtx
    \/ DropIter
    \/ DropState

SpecSession == InitWith(LayoutA) /\ [][NextSession]_vars

\* Frames with drags whose events the caller drains, in part or in full, or
\* leaves queued; the run stops pushing after MaxEvents events.
NextEvents ==
    \/ /\ Update({<<"a">>, <<"a", "b">>}, {<<>>}, {<<0, 0>>, <<1, 0>>}, {"events"})
       /\ Len(evlog'.pushed) <= MaxEvents
    \/ SessionEvents_events
    \/ Events_next({"events"})
    \/ DropIter
    \/ SessionEvents_next
    \/ SessionNodes_nodes
    \/ Nodes_next
    \/ Node_widget({"Button"})
    \/ Widget_set({})
    \/ SessionNodes_next
    \/ SessionEdges_edges
    \/ Edges_next

SpecEvents == InitWith(LayoutA) /\ [][NextEvents]_vars

\* Frames of one dragged node and one edge, all three stages walked, with the
\* caller applying the Dragged events it drains or leaving them.
NextLayout ==
    \/ Update({<<"a">>}, {<<CHOOSE e \in EdgeVals : TRUE>>},
              {<<0, 0>>, <<1, 0>>}, {"drag"})
    \/ SessionEvents_events
    \/ Events_next({})
    \/ ApplyDragged
    \/ SessionEvents_next
    \/ SessionNodes_nodes
    \/ Nodes_next
    \/ Node_widget({"Button"})
    \/ Widget_set({})
    \/ SessionNodes_next
    \/ SessionEdges_edges
    \/ Edges_next
    \/ Edge_widget({"Line"})

SpecLayout == InitWith(LayoutA) /\ [][NextLayout]_vars

\* The demo graph of the example: nodes A..E in the order of node_indices().
DemoNodes == <<"A", "B", "C", "D", "E">>

\* Its edges A->C, A->D, B->D, C->D, D->E with their socket indices.
DemoEdges ==
    << <<NodeSocket("A", 1), NodeSocket("C", 0)>>,
       <<NodeSocket("A", 0), NodeSocket("D", 1)>>,
       <<NodeSocket("B", 0), NodeSocket("D", 0)>>,
       <<NodeSocket("C", 0), NodeSocket("D", 2)>>,
       <<NodeSocket("D", 0), NodeSocket("E", 0)>> >>

\* Its starting layout.
DemoLayout ==
    [n \in Range(DemoNodes) |->
        CASE n = "A" -> <<-300, 0>>
          [] n = "B" -> <<-100, 100>>
          [] n = "C" -> <<-100, -100>>
          [] n = "D" -> <<100, 0>>
          [] n = "E" -> <<300, 0>>]

\* The drag the host reports for a widget of the demo: none, or ten units
\* right and up.
DemoDeltas == {<<0, 0>>, <<10, 10>>}

\* The nodes stage has yielded every node.
NodesDone == iter.tag = "Nodes" /\ iter.index = Len(node_ids) + 1

\* Two frames of the example over the demo graph: each reconciliation is
\* followed by the events stage, drained or not, and a full nodes stage that
\* sets a Button for every node; before the second reconciliation the host
\* reports a drag for any of the Buttons.
NextDemo ==
    \/ /\ last.frames < 2
       /\ session = "None" \/ NodesDone
       /\ \E drag \in [{node_widget_ids[n] : n \in DOMAIN node_widget_ids} -> DemoDeltas] :
              update(DemoNodes, DemoEdges, drag, {"drag"})
    \/ SessionEvents_events
    \/ Events_next({})
    \/ SessionEvents_next
    \/ SessionNodes_nodes
    \/ Nodes_next
    \/ Node_widget({"Button"})
    \/ take_widget_id(FALSE, {})

SpecDemo == InitWith({DemoLayout}) /\ [][NextDemo]_vars

\* Socket layouts in which every side and direction occurs once as the input
\* and once as the output layout.
GeomStyles ==
    { SocketLayouts(SocketLayout("Left", "Backwards"), SocketLayout("Right", "Backwards")),
      SocketLayouts(SocketLayout("Right", "Backwards"), SocketLayout("Top", "Forwards")),
      SocketLayouts(SocketLayout("Top", "Forwards"), SocketLayout("Bottom", "Backwards")),
      SocketLayouts(SocketLayout("Bottom", "Backwards"), SocketLayout("Left", "Forwards")),
      SocketLayouts(SocketLayout("Left", "Forwards"), SocketLayout("Right", "Forwards")),
      SocketLayouts(SocketLayout("Right", "Forwards"), SocketLayout("Top", "Backwards")),
      SocketLayouts(SocketLayout("Top", "Backwards"), SocketLayout("Bottom", "Forwards")),
      SocketLayouts(SocketLayout("Bottom", "Forwards"), SocketLayout("Left", "Backwards")) }

\* Frames of one or two nodes and an edge between "a" and "b": the caller sets
\* a Button for a node or skips it, then takes the straight line of the edge.
NextGeom ==
    \/ Update({<<"a">>, <<"a", "b">>}, {<<e>> : e \in EdgeVals}, NoDrag, {})
    \/ SessionEvents_next
    \/ SessionNodes_nodes
    \/ Nodes_next
    \/ Node_widget({"Button"})
    \/ Widget_set({})
    \/ DropCtx
    \/ SessionNodes_next
    \/ SessionEdges_edges
    \/ Edges_next
    \/ Edge_straight_line(HostRects)

SpecGeom == InitStyled(LayoutA, GeomStyles) /\ [][NextGeom]_vars

\* Frames of one or two nodes with drags: the caller drains the events or
\* leaves them, and in the nodes stage sets a Button for a node or skips it.
NextBound ==
    \/ Update({<<"a">>, <<"a", "b">>}, {<<>>}, {<<0, 0>>, <<1, 0>>}, {"drag", "bound"})
    \/ SessionEvents_events
    \/ Events_next({})
    \/ SessionEvents_next
    \/ SessionNodes_nodes
    \/ Nodes_next
    \/ Node_widget({"Button"})
    \/ Widget_widget_id({"bound"})
    \/ Widget_set({"bound"})
    \/ DropCtx

SpecBound == InitWith(LayoutA) /\ [][NextBound]_vars

\* Frames that add, remove and repeat nodes and edges; the caller walks the
\* nodes stage and the edges stage, looking at each context and dropping it.
NextWalk ==
    \/ Update(NodeSeqs, EdgeSeqs, NoDrag, {"diff"})
    \/ SessionEvents_next
    \/ SessionNodes_nodes
    \/ Nodes_next
    \/ SessionNodes_next
    \/ SessionEdges_edges
    \/ Edges_next
    \/ DropCtx

SpecWalk == InitWith(LayoutA) /\ [][NextWalk]_vars

\* update_stale with the caller's sequences drawn from NS and ES and the
\* host's drag deltas from DS.
UpdateStale(NS, ES, DS, H) ==
    \E new_nodes \in NS, new_edges \in ES :
        \E drag \in [{node_widget_ids[n] : n \in DOMAIN node_widget_ids} -> DS] :
            /\ update_stale(new_nodes, new_edges, drag, H)
            /\ \A n \in DOMAIN nodes' : nodes'[n] \in Points

\* The most passes over the nodes the caller makes in one frame.
MaxPasses == 2

\* The caller sets a Button for the node it holds, in one of at most
\* MaxPasses passes over at most MaxLen nodes.
SetAgain ==
    /\ entry_or_default(type_widget_ids, "Button").next_index < MaxPasses * MaxLen
    /\ take_widget_id(FALSE, {"requests"})

\* A `for node in session.nodes()` or `for edge in session.edges()` loop ends:
\* next() returned None and the iterator is dropped.
EndOfPass ==
    /\ \/ iter.tag = "Nodes" /\ iter.index > Len(node_ids)
       \/ iter.tag = "Edges" /\ iter.index > Len(edges)
    /\ DropIter

\* The caller is done with an edge without setting a widget for it.
DropEdge == ctx.tag = "Edge" /\ DropCtx

\* Frames in which the caller walks the nodes several times, setting a Button
\* for every node of every pass, and then the edges several times.
NextRestart ==
    \/ Update({<<"a">>, <<"a", "b">>}, {<<>>, <<CHOOSE e \in EdgeVals : TRUE>>},
              NoDrag, {"requests"})
    \/ SessionEvents_next
    \/ SessionNodes_nodes
    \/ Nodes_next
    \/ Node_widget({"Button"})
    \/ SetAgain
    \/ EndOfPass
    \/ SessionNodes_next
    \/ SessionEdges_edges
    \/ Edges_next
    \/ DropEdge

SpecRestart == InitWith(LayoutA) /\ [][NextRestart]_vars

\* Frames after which the caller takes the new session, and frames after which
\* it goes on with the session it already holds, at any stage.
NextStale ==
    \/ Update({<<"a">>, <<"a", "b">>}, {<<CHOOSE e \in EdgeVals : TRUE>>},
              {<<0, 0>>, <<1, 0>>}, {"diff", "drag"})
    \/ UpdateStale({<<"a">>, <<"a", "b">>}, {<<CHOOSE e \in EdgeVals : TRUE>>},
                   {<<0, 0>>, <<1, 0>>}, {"diff", "drag"})
    \/ SessionEvents_events
    \/ Events_next({})
    \/ EndOfPass
    \/ SessionEvents_next
    \/ SessionNodes_nodes
    \/ Nodes_next
    \/ Node_widget({"Button"})
    \/ Widget_set({})
    \/ DropEdge
    \/ SessionNodes_next
    \/ SessionEdges_edges
    \/ Edges_next

SpecStale == InitWith(LayoutA) /\ [][NextStale]_vars

\* ------------------------------------------------------------- properties
\* Some reconciliation has run.
Updated == last.frames > 0

IsPrefix(p, q) == Len(p) <= Len(q) /\ \A k \in 1..Len(p) : p[k] = q[k]

\* B is A with elements added at the end or taken from the end (or is A).
PrefixRelated(A, B) == IsPrefix(A, B) \/ IsPrefix(B, A)

\* The first index (0-based) at which A and B differ.
FirstDiff(A, B) ==
    LET m == IF Len(A) < Len(B) THEN Len(A) ELSE Len(B) IN
    Min({k - 1 : k \in {j \in 1..m : A[j] # B[j]}} \cup {m})

\* A[0..i] ++ B[i..] with i the first index at which A and B differ.
Splice(A, B) ==
    SubSeq(A, 1, FirstDiff(A, B)) \o SubSeq(B, FirstDiff(A, B) + 1, Len(B))

\* C1 as stated: the retained sequence equals B exactly when B extends or
\* truncates A, and is A[0..i] ++ B[i..] for every other divergence.
C1_AsStated ==
    Updated =>
        /\ (node_ids = last.new_nodes)
               <=> PrefixRelated(last.old_node_ids, last.new_nodes)
        /\ (edges = last.new_edges)
               <=> PrefixRelated(last.old_edges, last.new_edges)
        /\ ~PrefixRelated(last.old_node_ids, last.new_nodes)
               => node_ids = Splice(last.old_node_ids, last.new_nodes)
        /\ ~PrefixRelated(last.old_edges, last.new_edges)
               => edges = Splice(last.old_edges, last.new_edges)

\* C1 (amended): after a reconciliation the retained node-id and edge
\* sequences are A[0..i] ++ B[i..], with i the first index at which the
\* retained A and the new B differ, and that is B itself for every A and B:
\* for an extension, a truncation and a divergence in the middle alike.
C1_DiffCorrect ==
    Updated =>
        /\ node_ids = Splice(last.old_node_ids, last.new_nodes)
        /\ node_ids = last.new_nodes
        /\ edges = Splice(last.old_edges, last.new_edges)
        /\ edges = last.new_edges

\* A reconciliation whose new node ids diverge from the retained ones after a
\* common first element, and whose new edges do too.
C1_Witness ==
    /\ Updated
    /\ ~PrefixRelated(last.old_node_ids, last.new_nodes)
    /\ FirstDiff(last.old_node_ids, last.new_nodes) >= 1
    /\ node_ids = last.new_nodes
    /\ ~PrefixRelated(last.old_edges, last.new_edges)
    /\ edges = last.new_edges

\* The pushes of the last reconciliation that are Dragged events of node n.
DraggedOf(n) ==
    {k \in 1..Len(last.pushed) :
        last.pushed[k].tag = "Dragged" /\ last.pushed[k].node_id = n}

\* The positions of node n in node_ids.
Occurrences(n) == {k \in 1..Len(node_ids) : node_ids[k] = n}

\* At the last reconciliation node n had a widget id bound by the nodes stage
\* of the frame before, and the host reported a drag other than (0,0) for it.
WasDragged(n) ==
    /\ n \in DOMAIN last.nwi
    /\ last.drag[last.nwi[n]] # <<0, 0>>

\* The baseline point of n at the last reconciliation and the point dragged to.
Baseline(n) == layout_point(last.layout, n)

DraggedTo(n) ==
    <<Baseline(n)[1] + last.drag[last.nwi[n]][1],
      Baseline(n)[2] + last.drag[last.nwi[n]][2]>>

\* C2 as stated: one reconciliation pushes exactly one Dragged{n, P, P+d} for
\* a dragged node n and stores P+d as its resolved position.
C2_AsStated ==
    Updated =>
        \A n \in Range(node_ids) :
            WasDragged(n) =>
                /\ Cardinality(DraggedOf(n)) = 1
                /\ \A k \in DraggedOf(n) :
                       last.pushed[k] = Dragged(n, Baseline(n), DraggedTo(n))
                /\ nodes[n] = DraggedTo(n)

\* C2 (amended): for a dragged node n with baseline P and delta d, one
\* reconciliation pushes one Dragged{n, from: P, to: P+d} for each occurrence
\* of n in node_ids (exactly one when the caller supplies the id once), pushes
\* no other event for n, and stores P+d as the resolved position of n.
C2_DragRoundTrip ==
    Updated =>
        \A n \in Range(node_ids) :
            WasDragged(n) =>
                /\ Cardinality(DraggedOf(n)) = Cardinality(Occurrences(n))
                /\ \A k \in DraggedOf(n) :
                       last.pushed[k] = Dragged(n, Baseline(n), DraggedTo(n))
                /\ nodes[n] = DraggedTo(n)

\* A reconciliation that found node "a", supplied once and with a baseline
\* off the origin, dragged: its one event and its new position.
C2_Witness ==
    /\ Updated
    /\ node_ids = <<"a", "b">>
    /\ WasDragged("a")
    /\ Baseline("a") # Origin
    /\ last.pushed = <<Dragged("a", Baseline("a"), DraggedTo("a"))>>
    /\ nodes["a"] = DraggedTo("a")

\* The Event variants that describe a change of the graph's structure.
StructuralTags == {"Remove", "AddStart", "Add", "Cancelled"}

\* The last reconciliation added or removed a node or an edge.
StructureChanged ==
    \/ last.old_node_ids # last.new_nodes
    \/ last.old_edges # last.new_edges

\* C3 as stated: a node or edge added or removed between two frames is exposed
\* as an event of the stream.
C3_AsStated ==
    (Updated /\ StructureChanged) =>
        \E k \in 1..Len(last.pushed) : last.pushed[k].tag \in StructuralTags

\* C3 (amended): reconciliation exposes positional changes only. Every event
\* it pushes is a Dragged of a node of node_ids that was dragged, also in a
\* frame that adds or removes nodes or edges; a structural change that comes
\* with no drag pushes no event at all.
C3_OnlyDragsAreEvents ==
    Updated =>
        /\ \A k \in 1..Len(last.pushed) :
               /\ last.pushed[k].tag = "Dragged"
               /\ last.pushed[k].node_id \in Range(node_ids)
               /\ WasDragged(last.pushed[k].node_id)
        /\ (\A n \in Range(node_ids) : ~WasDragged(n)) => last.pushed = <<>>

\* A reconciliation that added node "b" and an edge, with no drag: no event.
C3_Witness ==
    /\ Updated
    /\ last.old_node_ids = <<"a">> /\ node_ids = <<"a", "b">>
    /\ last.old_edges = <<>> /\ Len(edges) = 1
    /\ last.nwi # EmptyMap
    /\ last.pushed = <<>>

\* The content types of the first n requests of a request log.
TypesOf(reqs, n) == [k \in 1..n |-> reqs[k].ty]

\* C4: when this frame has so far requested the same content-widget types in
\* the same order as the frame before, its Nth request returned the identifier
\* the Nth request of the frame before returned.
C4_IdStability ==
    \A n \in 1..Len(reqlog.reqs) :
        (n <= Len(reqlog.prev_reqs)
            /\ TypesOf(reqlog.reqs, n) = TypesOf(reqlog.prev_reqs, n))
        => reqlog.reqs[n].id = reqlog.prev_reqs[n].id

\* Two consecutive frames that requested the same two types in the same order.
C4_Witness ==
    /\ last.frames >= 2
    /\ Len(reqlog.reqs) >= 2
    /\ TypesOf(reqlog.reqs, Len(reqlog.reqs))
           = TypesOf(reqlog.prev_reqs, Len(reqlog.prev_reqs))
    /\ \E j, k \in 1..Len(reqlog.reqs) : reqlog.reqs[j].ty # reqlog.reqs[k].ty
    /\ reqlog.reqs = reqlog.prev_reqs

\* The identifiers allocated so far for content type t.
Allocated(t) == Len(entry_or_default(type_widget_ids, t).widget_ids)

\* C5: the number of identifiers allocated for a type is the largest number
\* of them requested within one frame so far: it never exceeds a bound K on
\* the per-frame requests and is K from the first frame that requests K on.
C5_GrowthBounded ==
    \A t \in Types : Allocated(t) = reqlog.hwm[t]

\* A later frame that requests fewer identifiers of a type than an earlier one
\* did: the pool keeps the two it allocated then.
C5_Witness ==
    /\ last.frames >= 2
    /\ \E t \in Types :
           /\ reqlog.hwm[t] = 2
           /\ Allocated(t) = 2
           /\ CountOf(reqlog.prev_reqs, t) < 2
           /\ CountOf(reqlog.reqs, t) = 1

\* The position of a stage in the order SessionEvents, SessionNodes, SessionEdges.
Rank(stage) ==
    CASE stage = "SessionEvents" -> 1
      [] stage = "SessionNodes" -> 2
      [] stage = "SessionEdges" -> 3
      [] OTHER -> 0

\* A step that is one reconciliation (Graph::set) rather than a caller's step.
IsUpdate == last.tick' # last.tick

IsEventsNext ==
    /\ iter.tag = "Events" /\ iter' = iter
    /\ session' = session /\ layout' = layout /\ state_alive' = state_alive
    /\ <<events, item, evlog>>' # <<events, item, evlog>>

\* C7: every event ever queued is either already yielded or still queued, in
\* queue order, without loss or repetition; each call of next() on a non-empty
\* queue yields its front and removes it, and on an empty queue yields nothing.
C7_DrainFifo ==
    /\ [](evlog.pushed = evlog.yielded \o events)
    /\ [][IsEventsNext =>
             IF events = <<>>
             THEN item' = None /\ events' = <<>> /\ evlog' = evlog
             ELSE /\ item' = Head(events)
                  /\ events' = Tail(events)
                  /\ evlog'.yielded = Append(evlog.yielded, Head(events))]_vars

C7_Witness ==
    /\ Len(evlog.yielded) = 2 /\ evlog.yielded[1] # evlog.yielded[2]
    /\ evlog.pushed = evlog.yielded
    /\ events = <<>> /\ iter.tag = "Events" /\ item = None

\* evs is ordered as its nodes are in ids: node k of evs sits at an index of
\* ids that grows with k.
InNodeOrder(evs, ids) ==
    \E f \in [1..Len(evs) -> 1..Len(ids)] :
        /\ \A k \in 1..Len(evs) : ids[f[k]] = evs[k].node_id
        /\ \A j, k \in 1..Len(evs) : j < k => f[j] < f[k]

IsSuffix(s, t) ==
    Len(s) <= Len(t) /\ \A k \in 1..Len(s) : s[k] = t[Len(t) - Len(s) + k]

\* C8: the events of one reconciliation are queued in the order of their nodes
\* in node_ids, behind the events queued before; the Events stage yields the
\* queue in that order; and pushes happen only inside the reconciliation, so
\* nothing is queued once a stage of the frame is in the caller's hands.
C8_EnqueueOrder ==
    /\ [](Updated =>
            /\ InNodeOrder(last.pushed, node_ids)
            /\ IsSuffix(last.pushed, evlog.pushed)
            /\ IsPrefix(evlog.yielded, evlog.pushed)
            /\ IsSuffix(events, evlog.pushed))
    /\ [][evlog.pushed' # evlog.pushed =>
             IsUpdate /\ session' = "SessionEvents"]_vars

C8_Witness ==
    /\ Len(last.pushed) = 2 /\ last.pushed[1].node_id # last.pushed[2].node_id
    /\ evlog.yielded = last.pushed
    /\ session \in {"SessionNodes", "SessionEdges"} /\ iter.tag # "None"

\* The shared state is gone: no strong reference is left.
SharedDestroyed == strong = 0

\* C9 as stated: once the shared state is destroyed, every stage method the
\* caller runs, the stage transitions included, panics.
C9_AsStated ==
    [][(SharedDestroyed /\ session # "None") => panicked']_vars

\* C9: once the shared state is destroyed, events(), nodes() and edges() panic
\* without handing out an iterator or touching the state, while the stage
\* transitions succeed and move the session forward.
C9_ExpiredPanics ==
    [][(SharedDestroyed /\ ~panicked) =>
          IF session' = session
          THEN panicked' /\ iter' = iter /\ UNCHANGED <<shared_vars, strong>>
          ELSE /\ ~panicked' /\ Rank(session') = Rank(session) + 1
               /\ UNCHANGED <<shared_vars, strong, iter>>]_vars

C9_Witness ==
    /\ panicked /\ SharedDestroyed /\ ~state_alive
    /\ session = "SessionEdges" /\ iter.tag = "None"

\* The strong references the widget's State and the caller's objects account for.
Owners == (IF state_alive THEN 1 ELSE 0) + held(iter) + held(ctx)

C11_NodesKeys == DOMAIN nodes = Range(node_ids)

\* A reconciliation that removed one node and added another.
C11_Witness ==
    /\ Updated
    /\ Range(last.old_node_ids) \ Range(node_ids) # {}
    /\ Range(node_ids) \ Range(last.old_node_ids) # {}
    /\ DOMAIN nodes = Range(node_ids)

\* No element of s occurs twice.
NoDup(s) == \A j, k \in 1..Len(s) : s[j] = s[k] => j = k

\* C12 as stated: node_ids never holds a node id twice, whatever sequences the
\* caller supplies.
C12_AsStated == NoDup(node_ids)

\* C12: node_ids is free of duplicates exactly when the sequence the caller
\* supplied to the last reconciliation is; a repeated id is retained as given.
C12_UniqueIfSupplied ==
    Updated =>
        /\ NoDup(node_ids) <=> NoDup(last.new_nodes)
        /\ \A n \in NodeIds :
               Cardinality(Occurrences(n))
                   = Cardinality({k \in 1..Len(last.new_nodes) : last.new_nodes[k] = n})

\* The caller supplied an id twice after a frame without duplicates.
C12_Witness ==
    /\ Updated
    /\ Len(last.old_node_ids) = 2 /\ NoDup(last.old_node_ids)
    /\ ~NoDup(last.new_nodes) /\ ~NoDup(node_ids)

\* C13: the caller's Layout changes in no step of the reconciliation or of
\* the Events, Nodes and Edges stages; it changes only when the caller applies
\* the Dragged event it holds, and then by that event's node and `to` alone.
C13_LayoutUntouched ==
    [][layout' # layout =>
          /\ ~IsUpdate
          /\ item.tag = "Dragged"
          /\ layout' = [layout EXCEPT ![item.node_id] = item.to]
          /\ UNCHANGED <<shared_vars, session, iter, ctx>>]_vars

\* A drag was reconciled and its event drained in an earlier frame without
\* the caller applying it, and the same baseline was dragged again: the
\* Layout still holds the position the caller gave, the nodes map the new one.
C13_Witness ==
    /\ last.frames = 2 /\ session = "SessionEdges" /\ ctx.tag = "Edge"
    /\ WasDragged("a")
    /\ layout = last.layout
    /\ nodes["a"] # layout["a"]

\* C14: the position a Node context of the Nodes stage exposes is the
\* baseline of the frame's reconciliation moved by the drag found then, for a
\* dragged node, and the baseline otherwise, whether the Dragged event is still
\* queued, was drained, or was applied to the Layout.
C14_ResolvedInFrame ==
    ctx.tag \in {"Node", "NodeWidget"} =>
        /\ ctx.point = nodes[ctx.node_id]
        /\ ctx.point = IF WasDragged(ctx.node_id)
                       THEN DraggedTo(ctx.node_id)
                       ELSE Baseline(ctx.node_id)

\* The Nodes stage exposes the dragged position while the event is undrained.
C14_Witness ==
    /\ ctx.tag = "Node" /\ WasDragged(ctx.node_id)
    /\ events # <<>> /\ Head(events).node_id = ctx.node_id
    /\ layout = last.layout
    /\ ctx.point = DraggedTo(ctx.node_id) /\ ctx.point # layout[ctx.node_id]

\* The host reported the drag <<10, 10>> for the widget of node D, and none
\* for any other widget, to the last reconciliation.
DragOnD ==
    /\ DOMAIN last.nwi = Range(DemoNodes)
    /\ \A n \in DOMAIN last.nwi :
           last.drag[last.nwi[n]] = IF n = "D" THEN <<10, 10>> ELSE <<0, 0>>

\* C15: over the demo graph the first reconciliation pushes no event and
\* retains node_ids = [A, B, C, D, E]; after a full nodes stage, a second
\* reconciliation with the drag [10, 10] on D's widget pushes exactly
\* Dragged{D, from [100, 0], to [110, 10]}, resolves D to [110, 10] and leaves
\* A, B, C and E at their layout positions.
C15_DemoScenario ==
    /\ last.frames = 1 =>
           /\ last.pushed = <<>> /\ events = <<>>
           /\ node_ids = DemoNodes /\ edges = DemoEdges
           /\ nodes = DemoLayout
    /\ (last.frames = 2 /\ DragOnD) =>
           /\ last.pushed = <<Dragged("D", <<100, 0>>, <<110, 10>>)>>
           /\ node_ids = DemoNodes
           /\ nodes["D"] = <<110, 10>>
           /\ \A n \in {"A", "B", "C", "E"} : nodes[n] = DemoLayout[n]

\* The second frame of the scenario, its one event still queued.
C15_Witness ==
    /\ last.frames = 2 /\ DragOnD
    /\ events = <<Dragged("D", <<100, 0>>, <<110, 10>>)>>
    /\ nodes["D"] = <<110, 10>> /\ nodes["A"] = <<-300, 0>>

\* The caller holds the EdgeWidget straight_line returned.
HasLine == ctx.tag = "EdgeWidget" /\ "line" \in DOMAIN ctx

\* Every SocketLayout.
AllSocketLayouts == {SocketLayout(sd, d) : sd \in SocketSides, d \in Directions}

\* Socket i along a range: 5 in from its start and 10 apart going forwards, 5
\* in from its end and 10 apart going backwards.
Walk(i, range, direction) ==
    IF direction = "Forwards" THEN range.start + 5 + i * 10
                              ELSE range.end - 5 - i * 10

\* The anchor of socket i on rectangle R: on the edge of R on the layout's
\* side, walking along the other axis.
Anchor(i, R, l) ==
    CASE l.side = "Left"   -> <<R.x.start, Walk(i, R.y, l.direction)>>
      [] l.side = "Right"  -> <<R.x.end, Walk(i, R.y, l.direction)>>
      [] l.side = "Bottom" -> <<Walk(i, R.x, l.direction), R.y.start>>
      [] l.side = "Top"    -> <<Walk(i, R.x, l.direction), R.y.end>>

\* The coordinate of point p on the walking axis of layout l.
WalkCoord(p, l) == IF l.side \in {"Left", "Right"} THEN p[2] ELSE p[1]

\* C16: socket i on a rectangle lies on the rectangle's edge on the layout's
\* side, and along the other axis at start + 5 + 10 i going forwards or at
\* end - 5 - 10 i going backwards; on the right side going backwards socket 0
\* is at (right, top - 5) and socket 1 at (right, top - 15); the anchors move
\* strictly forwards, or strictly backwards, with the index. Both ends of a
\* straight line are such anchors: the start on the output layout, the end on
\* the input layout.
C16_SocketAnchors ==
    HasLine =>
        /\ ctx.line[1] = Anchor(ctx.start.socket_index, ctx.rects[1],
                                socket_layouts.output)
        /\ ctx.line[2] = Anchor(ctx.end.socket_index, ctx.rects[2],
                                socket_layouts.input)
        /\ \A k \in 1..2, l \in AllSocketLayouts :
               LET R == ctx.rects[k] IN
               /\ \A i \in 0..MaxSocket : socket_point(i, R, l) = Anchor(i, R, l)
               /\ \A i \in 0..(MaxSocket - 1) :
                      IF l.direction = "Forwards"
                      THEN WalkCoord(socket_point(i, R, l), l)
                               < WalkCoord(socket_point(i + 1, R, l), l)
                      ELSE WalkCoord(socket_point(i, R, l), l)
                               > WalkCoord(socket_point(i + 1, R, l), l)
               /\ socket_point(0, R, SocketLayout("Right", "Backwards"))
                      = <<R.x.end, R.y.end - 5>>
               /\ socket_point(1, R, SocketLayout("Right", "Backwards"))
                      = <<R.x.end, R.y.end - 15>>

\* A line that starts at socket 1 of a node whose Button the host has a
\* rectangle for, with the outputs on the right going backwards.
C16_Witness ==
    /\ HasLine
    /\ ctx.start.socket_index = 1
    /\ ctx.rects[1].x.start < ctx.rects[1].x.end
    /\ socket_layouts.output = SocketLayout("Right", "Backwards")
    /\ ctx.line[1] = <<ctx.rects[1].x.end, ctx.rects[1].y.end - 15>>

\* A zero-area rectangle.
Degenerate(R) == R.x.start = R.x.end /\ R.y.start = R.y.end

\* The node's resolved position, [0.0; 2] for a node that has none.
NodePoint(id) == IF id \in DOMAIN nodes THEN nodes[id] ELSE Origin

\* End k of the held line: its socket and the layout it is placed with.
EndSocket(k) == IF k = 1 THEN ctx.start ELSE ctx.end

EndLayout(k) == IF k = 1 THEN socket_layouts.output ELSE socket_layouts.input

\* The host gave no rectangle for the node of end k: no widget is bound to it
\* or rect_of answered None.
NoHostRect(k) ==
    \/ EndSocket(k).id \notin DOMAIN node_widget_ids
    \/ ctx.rect_of[node_widget_ids[EndSocket(k).id]] = <<>>

Padded(p, i, l) ==
    LET step == IF l.direction = "Forwards" THEN 5 + 10 * i ELSE -(5 + 10 * i) IN
    IF l.side \in {"Left", "Right"} THEN <<p[1], p[2] + step>>
                                     ELSE <<p[1] + step, p[2]>>

ZeroRectAt(p) ==
    [x |-> [start |-> p[1], end |-> p[1]], y |-> [start |-> p[2], end |-> p[2]]]

\* C18: straight_line can always be taken from an Edge context, and for a
\* node without a host rectangle it uses the zero-size rectangle at the node's
\* resolved position, or at the origin when the node is not in node_ids;
\* with a host rectangle it uses that.
C18_FallbackRects ==
    /\ (ctx.tag = "Edge" /\ ~panicked) => ENABLED Edge_straight_line(HostRects)
    /\ HasLine =>
           \A k \in 1..2 :
               LET id == EndSocket(k).id IN
               ctx.rects[k] =
                   IF ~NoHostRect(k) THEN ctx.rect_of[node_widget_ids[id]][1]
                   ELSE IF id \in Range(node_ids) THEN ZeroRectAt(nodes[id])
                   ELSE ZeroRectAt(<<0, 0>>)

\* An edge from a node off the origin that has no widget to a node that is
\* not in node_ids.
C18_Witness ==
    /\ HasLine
    /\ ctx.start.id \in Range(node_ids) /\ ctx.start.id \notin DOMAIN node_widget_ids
    /\ nodes[ctx.start.id] # Origin
    /\ ctx.rects[1] = ZeroRectAt(nodes[ctx.start.id])
    /\ ctx.end.id \notin Range(node_ids)
    /\ ctx.rects[2] = ZeroRectAt(Origin)

\* The identifiers allocated for type t so far, in the order of allocation.
IdsOf(t) == entry_or_default(type_widget_ids, t).widget_ids

\* C19: the N-th request for a content type within a frame returns the N-th
\* identifier of that type's list, which holds the type's identifiers in the
\* order they were allocated; the cursor of a type counts the frame's requests
\* for it; and the host generator is drawn from only by a request whose N is
\* one more than the number of identifiers the type has, which appends the
\* one new identifier.
C19_NthRequestNthId ==
    /\ [](/\ \A k \in 1..Len(reqlog.reqs) :
                LET N == CountOf(SubSeq(reqlog.reqs, 1, k), reqlog.reqs[k].ty) IN
                /\ N <= Len(IdsOf(reqlog.reqs[k].ty))
                /\ reqlog.reqs[k].id = IdsOf(reqlog.reqs[k].ty)[N]
          /\ \A t \in Types :
                entry_or_default(type_widget_ids, t).next_index
                    = CountOf(reqlog.reqs, t))
    /\ [][/\ generator' # generator =>
                \E t \in Types :
                    /\ CountOf(reqlog.reqs, t) = Len(IdsOf(t))
                    /\ CountOf(reqlog'.reqs, t) = Len(IdsOf(t)) + 1
                    /\ IdsOf(t)' = Append(IdsOf(t), generator)
                    /\ generator' = generator + 1
          /\ (reqlog'.reqs # reqlog.reqs /\ ~IsUpdate /\ generator' = generator) =>
                /\ type_widget_ids' # type_widget_ids
                /\ \A t \in Types : IdsOf(t)' = IdsOf(t)]_vars

\* In a later frame the second request for a type returned the type's second
\* identifier, which an earlier frame allocated for a request of its own.
C19_Witness ==
    /\ last.frames = 2 /\ Len(reqlog.reqs) = 2
    /\ reqlog.reqs[1].ty = reqlog.reqs[2].ty
    /\ reqlog.reqs[2].id = IdsOf(reqlog.reqs[2].ty)[2]
    /\ reqlog.reqs[1].id = IdsOf(reqlog.reqs[1].ty)[1]
    /\ \E k \in 1..Len(reqlog.prev_reqs) : reqlog.prev_reqs[k].id = reqlog.reqs[2].id

\* C20: in every step each content type keeps its list of identifiers or
\* extends it at the end: no type leaves the pool and no identifier is
\* removed, moved or replaced, whatever nodes and edges the reconciliation
\* takes out of the graph.
C20_NoShrinking ==
    [][\A t \in DOMAIN type_widget_ids :
           /\ t \in DOMAIN type_widget_ids'
           /\ IsPrefix(type_widget_ids[t].widget_ids, type_widget_ids'[t].widget_ids)]_vars

\* A frame whose graph is down to one node and no edge while a type still
\* holds the two identifiers an earlier, larger frame allocated.
C20_Witness ==
    /\ last.frames = 2 /\ node_ids = <<"a">> /\ edges = <<>>
    /\ session = "SessionEdges"
    /\ \E t \in Types : Len(IdsOf(t)) = 2 /\ CountOf(reqlog.reqs, t) = 1

\* The cursor of content type t: its next_index.
Cursor(twi, t) == entry_or_default(twi, t).next_index

\* C21: every reconciliation leaves the cursor of every content type at zero
\* and every type's list of identifiers as it was, with no identifier
\* requested yet for the new frame; and no other step moves a cursor back, so
\* the reset happens once a frame, ahead of the frame's requests.
C21_ResetEachFrame ==
    /\ [][IsUpdate =>
             /\ DOMAIN type_widget_ids' = DOMAIN type_widget_ids
             /\ \A t \in DOMAIN type_widget_ids :
                    /\ type_widget_ids'[t].next_index = 0
                    /\ type_widget_ids'[t].widget_ids = type_widget_ids[t].widget_ids
             /\ reqlog'.reqs = <<>>]_vars
    /\ [][(\E t \in Types : Cursor(type_widget_ids', t) < Cursor(type_widget_ids, t))
             => IsUpdate]_vars
    /\ [](reqlog.reqs = <<>> => \A t \in Types : Cursor(type_widget_ids, t) = 0)

\* A reconciliation has just reset a cursor that the frame before left at 2.
C21_Witness ==
    /\ last.frames = 2 /\ session = "SessionEvents" /\ reqlog.reqs = <<>>
    /\ \E t \in Types :
           /\ CountOf(reqlog.prev_reqs, t) = 2
           /\ Cursor(type_widget_ids, t) = 0
           /\ Len(IdsOf(t)) = 2

\* C22: a reconciliation pushes a Dragged event only for a node the caller
\* instantiated in the nodes stage of the frame before, whose entry that stage
\* left in node_widget_ids; a node that is new, or that the caller left out
\* of that nodes stage, gets no event and resolves to its Layout baseline.
C22_DragNeedsBinding ==
    Updated =>
        /\ \A k \in 1..Len(last.pushed) :
               /\ last.pushed[k].node_id \in reqlog.prev_bound
               /\ last.pushed[k].node_id \in DOMAIN last.nwi
        /\ \A n \in Range(node_ids) :
               n \notin reqlog.prev_bound =>
                   /\ DraggedOf(n) = {}
                   /\ nodes[n] = Baseline(n)

\* Node "a" was instantiated in the frame before and is dragged; node "b" was
\* not, and stays at its baseline without an event.
C22_Witness ==
    /\ last.frames = 2 /\ node_ids = <<"a", "b">>
    /\ reqlog.prev_bound = {"a"} /\ WasDragged("a")
    /\ last.pushed = <<Dragged("a", Baseline("a"), DraggedTo("a"))>>
    /\ nodes["b"] = Baseline("b")

\* The identifier the pool issued last for content type ty: the one before
\* the cursor.
JustIssued(twi, ty) == twi[ty].widget_ids[twi[ty].next_index]

\* C23: a reconciliation leaves node_widget_ids empty; its keys are always
\* the nodes instantiated since, so it is empty until the frame's first
\* widget_id or set call on a node; and it changes otherwise only in the nodes
\* stage, by a NodeWidget's request mapping the node to the identifier issued.
C23_NodeMappings ==
    /\ [](DOMAIN node_widget_ids = reqlog.bound)
    /\ [][IsUpdate => node_widget_ids' = EmptyMap]_vars
    /\ [][(node_widget_ids' # node_widget_ids /\ ~IsUpdate) =>
             /\ session = "SessionNodes" /\ ctx.tag = "NodeWidget"
             /\ node_widget_ids'
                    = insert(node_widget_ids, ctx.node_id,
                             JustIssued(type_widget_ids', ctx.ty))]_vars

\* Both nodes instantiated in a later frame, each mapped to its identifier.
C23_Witness ==
    /\ last.frames = 2 /\ session = "SessionNodes"
    /\ DOMAIN node_widget_ids = {"a", "b"}
    /\ node_widget_ids["a"] # node_widget_ids["b"]
    /\ reqlog.prev_bound = {"a"}

Count(s, x) == Cardinality({k \in 1..Len(s) : s[k] = x})

\* C26: the retained edges hold every socket pair as often as the caller
\* supplied it, and the k-th edge context the edges stage yields is the
\* caller's k-th pair, a repeated pair yielded once for each time it occurs.
C26_EdgesNotDeduplicated ==
    Updated =>
        /\ Len(edges) = Len(last.new_edges)
        /\ \A e \in EdgeVals : Count(edges, e) = Count(last.new_edges, e)
        /\ (iter.tag = "Edges" /\ ctx.tag = "Edge") =>
               <<ctx.start, ctx.end>> = last.new_edges[iter.index]

\* The caller supplied one socket pair twice after a frame with two different
\* edges: the edges stage has yielded its second context for the pair.
C26_Witness ==
    /\ Len(last.old_edges) = 2 /\ last.old_edges[1] # last.old_edges[2]
    /\ Len(last.new_edges) = 2 /\ last.new_edges[1] = last.new_edges[2]
    /\ Count(edges, last.new_edges[1]) = 2
    /\ iter.tag = "Edges" /\ iter.index = 2
    /\ ctx.tag = "Edge" /\ <<ctx.start, ctx.end>> = edges[1]

\* C25: a node with no entry in the Layout is resolved from the baseline
\* [0,0]: it rests there when not dragged, and a drag of it goes from [0,0].
\* A node whose accumulated drag is exactly (0,0) gets no event and is
\* resolved at its baseline, whether or not it had a widget last frame.
C25_MissingEntryAndZeroDrag ==
    Updated =>
        \A n \in Range(node_ids) :
            LET base == IF n \in DOMAIN last.layout THEN last.layout[n] ELSE <<0, 0>> IN
            /\ (n \notin DOMAIN last.layout /\ ~WasDragged(n)) => nodes[n] = <<0, 0>>
            /\ (n \notin DOMAIN last.layout /\ WasDragged(n)) =>
                   /\ nodes[n] = last.drag[last.nwi[n]]
                   /\ \A k \in DraggedOf(n) : last.pushed[k].from = <<0, 0>>
            /\ (n \in DOMAIN last.nwi /\ last.drag[last.nwi[n]] = <<0, 0>>) =>
                   /\ DraggedOf(n) = {}
                   /\ nodes[n] = base

\* Both nodes had widgets last frame; "a" was dragged while "b", which has no
\* entry in the layout, reports a drag of (0,0): no event for "b", which
\* rests at the origin.
C25_Witness ==
    /\ Updated
    /\ node_ids = <<"a", "b">>
    /\ WasDragged("a")
    /\ "b" \in DOMAIN last.nwi /\ "b" \notin DOMAIN last.layout
    /\ last.drag[last.nwi["b"]] = <<0, 0>>
    /\ DraggedOf("b") = {} /\ DraggedOf("a") # {}
    /\ nodes["b"] = <<0, 0>>

\* C27: after every reconciliation node_ids has the length of the node-id
\* sequence the caller supplied and the same element at every index, and
\* edges likewise, whatever the sequences retained before were.
C27_RetainedIsSupplied ==
    Updated =>
        /\ Len(node_ids) = Len(last.new_nodes)
        /\ \A k \in 1..Len(node_ids) : node_ids[k] = last.new_nodes[k]
        /\ Len(edges) = Len(last.new_edges)
        /\ \A k \in 1..Len(edges) : edges[k] = last.new_edges[k]

\* The caller supplied fewer nodes than were retained, and two edges that
\* differ from the two retained at the first index already.
C27_Witness ==
    /\ Updated
    /\ Len(last.new_nodes) < Len(last.old_node_ids)
    /\ Len(last.old_edges) = 2 /\ Len(last.new_edges) = 2
    /\ last.old_edges[1] # last.new_edges[1]
    /\ node_ids = last.new_nodes /\ edges = last.new_edges

\* C28: the identifiers the pool has handed out since the last reset_indices
\* are pairwise distinct, whatever their content types and whether they went
\* to nodes or to edges; the pool holds no identifier twice, within a type's
\* list or in the lists of two types.
C28_FrameIdsDistinct ==
    /\ \A j, k \in 1..Len(reqlog.reqs) :
           j # k => reqlog.reqs[j].id # reqlog.reqs[k].id
    /\ \A t \in Types : NoDup(IdsOf(t))
    /\ \A s, t \in Types : s # t => Range(IdsOf(s)) \cap Range(IdsOf(t)) = {}

\* In a later frame a node and then an edge were given identifiers of two
\* different types, both allocated by an earlier frame.
C28_Witness ==
    /\ last.frames = 2 /\ Len(reqlog.reqs) = 2
    /\ reqlog.reqs[1].ty # reqlog.reqs[2].ty
    /\ reqlog.reqs[1].id # reqlog.reqs[2].id
    /\ ctx.tag = "EdgeWidget" /\ ctx.widget_id = <<reqlog.reqs[2].id>>
    /\ node_widget_ids = [n \in {"a"} |-> reqlog.reqs[1].id]
    /\ generator = 3

C30_NoDragForRemovedNode ==
    Updated =>
        /\ \A k \in 1..Len(last.pushed) :
               last.pushed[k].tag = "Dragged" =>
                   last.pushed[k].node_id \in Range(node_ids)
        /\ \A n \in NodeIds :
               n \notin Range(last.new_nodes) =>
                   DraggedOf(n) = {} /\ n \notin DOMAIN nodes

\* Node "b" had a widget last frame and the host reports a drag of it, but the
\* caller left it out of this frame's sequence: only "a" is retained and "b"
\* has no event.
C30_Witness ==
    /\ Updated
    /\ last.old_node_ids = <<"a", "b">> /\ node_ids = <<"a">>
    /\ WasDragged("b") /\ WasDragged("a")
    /\ DraggedOf("b") = {} /\ DraggedOf("a") # {}

\* C31: a reconciliation takes a node's baseline from the caller's Layout
\* alone and leaves the Layout as the caller has it: a node for which no drag
\* is reported is resolved at that baseline and gets no event, also when an
\* earlier reconciliation resolved it elsewhere and queued a Dragged event the
\* caller has not applied.
C31_NoAccumulatedDrag ==
    [][IsUpdate =>
         /\ layout' = layout
         /\ \A n \in Range(node_ids') :
                (n \notin DOMAIN last'.nwi \/ last'.drag[last'.nwi[n]] = <<0, 0>>) =>
                    /\ nodes'[n] = layout_point(layout, n)
                    /\ \A k \in 1..Len(last'.pushed) : last'.pushed[k].node_id # n]_vars

\* The Dragged event of an earlier frame is still queued and the layout still
\* holds the position it was dragged from; this reconciliation, with no drag
\* reported for node "a", resolved it at that position again.
C31_Witness ==
    /\ last.frames >= 2
    /\ "a" \in DOMAIN last.nwi /\ last.drag[last.nwi["a"]] = <<0, 0>>
    /\ last.pushed = <<>>
    /\ Len(events) = 1 /\ events[1].tag = "Dragged" /\ events[1].node_id = "a"
    /\ events[1].from = layout["a"] /\ events[1].to # layout["a"]
    /\ nodes["a"] = layout["a"]

\* The caller holds a NodeWidget or EdgeWidget.
HoldsHandle == ctx.tag \in {"NodeWidget", "EdgeWidget"}

\* C32: the first identifier request on a widget handle, by widget_id() or by
\* set(), takes the identifier at the cursor of the handle's type and moves
\* that cursor on by one; widget_id() keeps the identifier in the handle.
\* Once the handle has an identifier, a further widget_id() or set() on it
\* returns that identifier and changes neither the pool nor the generator.
C32_WidgetIdIdempotent ==
    /\ []((HoldsHandle /\ ctx.widget_id # <<>>) =>
            /\ widget_id(ctx).id = ctx.widget_id[1]
            /\ widget_id(ctx).twi = type_widget_ids
            /\ widget_id(ctx).nwi = node_widget_ids
            /\ widget_id(ctx).gen = generator)
    /\ [][(HoldsHandle /\ ctx.widget_id # <<>>) =>
             /\ type_widget_ids' = type_widget_ids
             /\ node_widget_ids' = node_widget_ids
             /\ generator' = generator
             /\ reqlog' = reqlog
             /\ ctx' \in {ctx, None}]_vars
    /\ [][(HoldsHandle /\ ctx.widget_id = <<>> /\ type_widget_ids' # type_widget_ids) =>
             /\ Cursor(type_widget_ids', ctx.ty) = Cursor(type_widget_ids, ctx.ty) + 1
             /\ Len(reqlog'.reqs) = Len(reqlog.reqs) + 1
             /\ reqlog'.reqs[Len(reqlog'.reqs)].id
                    = entry_or_default(type_widget_ids', ctx.ty)
                          .widget_ids[Cursor(type_widget_ids, ctx.ty) + 1]
             /\ ctx' # None =>
                    ctx' = [ctx EXCEPT !.widget_id = <<reqlog'.reqs[Len(reqlog'.reqs)].id>>]]_vars
    /\ [][(HoldsHandle /\ ctx.widget_id = <<>> /\ ctx'.tag = ctx.tag) =>
             type_widget_ids' # type_widget_ids]_vars

\* An EdgeWidget that has asked for its identifier, the frame's second
\* request and the first of its type: it holds that identifier, and a further
\* widget_id() or set() is possible.
C32_Witness ==
    /\ HoldsHandle /\ ctx.widget_id # <<>>
    /\ ctx.tag = "EdgeWidget"
    /\ Cursor(type_widget_ids, ctx.ty) = 1
    /\ ctx.widget_id[1] = IdsOf(ctx.ty)[1]
    /\ Len(reqlog.reqs) = 2 /\ reqlog.reqs[2] = [ty |-> ctx.ty, id |-> ctx.widget_id[1]]
    /\ ENABLED Widget_set({"requests"})

\* The node the k-th request of a frame was made for, when every pass sets a
\* widget for every node in turn.
NodeOfRequest(k) == node_ids[((k - 1) % Len(node_ids)) + 1]

\* The last request of the frame made for node n.
LastRequestFor(n) ==
    CHOOSE k \in 1..Len(reqlog.reqs) :
        /\ NodeOfRequest(k) = n
        /\ \A j \in (k + 1)..Len(reqlog.reqs) : NodeOfRequest(j) # n

\* C33: nodes() called again in the same frame starts at the first node and
\* leaves the pool as it is: the cursor goes on counting, so the k-th request
\* of the frame gets the k-th identifier of the type whichever pass it is
\* made in, complete passes over n nodes have requested a multiple of n
\* identifiers, and node_widget_ids maps each node to the identifier of the
\* last request made for it.
C33_NodesRestartable ==
    /\ [](session = "SessionNodes" =>
            /\ Cursor(type_widget_ids, "Button") = Len(reqlog.reqs)
            /\ \A k \in 1..Len(reqlog.reqs) : reqlog.reqs[k].id = IdsOf("Button")[k]
            /\ NoDup(IdsOf("Button"))
            /\ (iter.tag = "None" \/ iter.index > Len(node_ids)) =>
                   Len(reqlog.reqs) % Len(node_ids) = 0
            /\ DOMAIN node_widget_ids = {NodeOfRequest(k) : k \in 1..Len(reqlog.reqs)}
            /\ \A n \in DOMAIN node_widget_ids :
                   node_widget_ids[n] = reqlog.reqs[LastRequestFor(n)].id
            /\ ctx.tag = "Node" => ctx.node_id = node_ids[iter.index])
    /\ [](ctx.tag = "Edge" => <<ctx.start, ctx.end>> = edges[iter.index])
    /\ [][(iter.tag = "None" /\ iter'.tag \in {"Nodes", "Edges"}) =>
             /\ iter'.index = 0
             /\ type_widget_ids' = type_widget_ids
             /\ node_widget_ids' = node_widget_ids]_vars

\* Two complete passes over two nodes in one frame: four identifiers were
\* requested and both nodes are mapped to those of the second pass.
C33_Witness ==
    /\ session = "SessionNodes" /\ node_ids = <<"a", "b">>
    /\ iter.tag = "Nodes" /\ iter.index = 3
    /\ Len(reqlog.reqs) = 4
    /\ node_widget_ids = [n \in {"a", "b"} |->
                             IF n = "a" THEN reqlog.reqs[3].id ELSE reqlog.reqs[4].id]
    /\ \A n \in {"a", "b"}, k \in {1, 2} : node_widget_ids[n] # reqlog.reqs[k].id

\* C34: a session held from an earlier frame is left as it is by a later
\* reconciliation and goes on working at the stage it has reached: its
\* events(), nodes() and edges() are possible and never fail, and what they
\* yield is the queue, the node ids with their resolved positions and the
\* edges of the latest reconciliation.
C34_StaleSessionSeesLatest ==
    /\ [](~panicked)
    /\ [](last.stale =>
            /\ session # "None"
            /\ node_ids = last.new_nodes /\ edges = last.new_edges
            /\ (iter.tag = "None" /\ ctx.tag = "None") =>
                   \/ session = "SessionEvents" /\ ENABLED SessionEvents_events
                   \/ session = "SessionNodes" /\ ENABLED SessionNodes_nodes
                   \/ session = "SessionEdges" /\ ENABLED SessionEdges_edges
            /\ ctx.tag = "Node" =>
                   /\ ctx = Node(last.new_nodes[iter.index], nodes[ctx.node_id])
                   /\ ctx.point = IF WasDragged(ctx.node_id)
                                  THEN DraggedTo(ctx.node_id) ELSE Baseline(ctx.node_id)
            /\ ctx.tag = "Edge" => <<ctx.start, ctx.end>> = last.new_edges[iter.index])
    /\ [][(IsUpdate /\ last'.stale) =>
             session' = session /\ strong' = strong /\ weak' = weak]_vars
    /\ [][(last.stale /\ IsEventsNext) =>
             item' = IF events = <<>> THEN None ELSE Head(events)]_vars

\* The caller is in the nodes stage of a session from an earlier frame; the
\* latest reconciliation added node "b" and dragged node "a", and the stale
\* session's iterator has yielded "a" at its new position and now "b".
C34_Witness ==
    /\ last.stale /\ session = "SessionNodes"
    /\ last.old_node_ids = <<"a">> /\ node_ids = <<"a", "b">>
    /\ WasDragged("a") /\ nodes["a"] = DraggedTo("a")
    /\ iter.tag = "Nodes" /\ iter.index = 2
    /\ ctx = Node("b", nodes["b"])

\* C35: the cursor of every content type in the pool lies between 0 and the
\* length of the type's identifier list; one identifier request moves the
\* cursor of its type on by exactly one and draws at most one identifier from
\* the generator, appending it to the list.
C35_CursorWithinList ==
    /\ [](\A t \in DOMAIN type_widget_ids :
            /\ type_widget_ids[t].next_index >= 0
            /\ type_widget_ids[t].next_index <= Len(type_widget_ids[t].widget_ids))
    /\ [][Len(reqlog'.reqs) = Len(reqlog.reqs) + 1 =>
             \E t \in Types :
                 /\ reqlog'.reqs[Len(reqlog'.reqs)].ty = t
                 /\ Cursor(type_widget_ids', t) = Cursor(type_widget_ids, t) + 1
                 /\ generator' - generator \in {0, 1}
                 /\ Len(IdsOf(t)') = Len(IdsOf(t)) + (generator' - generator)]_vars

\* A type holds two identifiers and this frame has requested one of them: the
\* cursor stands inside the list, and the caller holds a handle that has yet
\* to ask for its identifier.
C35_Witness ==
    /\ last.frames = 2
    /\ \E t \in Types :
           /\ Len(IdsOf(t)) = 2 /\ Cursor(type_widget_ids, t) = 1
           /\ reqlog.reqs = <<[ty |-> t, id |-> IdsOf(t)[1]]>>
    /\ HoldsHandle /\ ctx.widget_id = <<>>

\* C36: an identifier request for content type T leaves the cursor and the
\* identifier list of every other type as they are. A request made for an
\* edge leaves node_widget_ids unchanged; one made for a node changes it at
\* that node alone.
C36_PerTypeIsolation ==
    [][(HoldsHandle /\ Len(reqlog'.reqs) = Len(reqlog.reqs) + 1) =>
          /\ reqlog'.reqs[Len(reqlog'.reqs)].ty = ctx.ty
          /\ \A s \in Types \ {ctx.ty} :
                 /\ entry_or_default(type_widget_ids', s)
                        = entry_or_default(type_widget_ids, s)
                 /\ s \in DOMAIN type_widget_ids' <=> s \in DOMAIN type_widget_ids
          /\ entry_or_default(type_widget_ids', ctx.ty)
                 # entry_or_default(type_widget_ids, ctx.ty)
          /\ ctx.tag = "EdgeWidget" => node_widget_ids' = node_widget_ids
          /\ ctx.tag = "NodeWidget" =>
                 /\ DOMAIN node_widget_ids' = DOMAIN node_widget_ids \cup {ctx.node_id}
                 /\ \A n \in DOMAIN node_widget_ids \ {ctx.node_id} :
                        node_widget_ids'[n] = node_widget_ids[n]]_vars

\* An edge was given the first identifier of one type after a node was bound
\* to the one identifier of the other type: that type's cursor and list, and
\* the node's binding, are as the node's request left them.
C36_Witness ==
    /\ ctx.tag = "EdgeWidget" /\ ctx.widget_id # <<>>
    /\ Cursor(type_widget_ids, ctx.ty) = 1
    /\ DOMAIN node_widget_ids = {"a"}
    /\ \E s \in DOMAIN type_widget_ids \ {ctx.ty} :
           /\ type_widget_ids[s] = TypeWidgetIds(1, <<node_widget_ids["a"]>>)
           /\ ctx.widget_id[1] # node_widget_ids["a"]

====
